---- MODULE Spec2Model ----
(***************************************************************************)
(* Model of the telegram-trading bot: the StrategyManager (session gate,   *)
(* daily counter, hourly throttle, signal stub, monitoring loop) and the   *)
(* TelegramBot command / callback / message handlers with their audit     *)
(* logging through database.get_db_session.                                *)
(*                                                                         *)
(* Time is the UTC wall clock in seconds since midnight of day 0.  Prices  *)
(* are fixed-point integers in units of 0.0001 (one "pip" of the source).  *)
(* A Python Optional is a sequence of length 0 (None) or 1 (a value).      *)
(* A synchronous stretch of code (no await that suspends) reads one clock  *)
(* value.                                                                  *)
(***************************************************************************)
EXTENDS Integers, Sequences, FiniteSets, TLC

VARIABLES
    clock,              \* datetime.now(timezone.utc), seconds since day 0 00:00
    running,            \* StrategyManager.running
    active_strategy,    \* StrategyManager.active_strategy
    last_signal_time,   \* StrategyManager.last_signal_time (Optional)
    signals_today,      \* StrategyManager.signals_today
    mon_pc,             \* position of start_monitoring: idle / loop / sleep / done
    sleep_left,         \* seconds left of the monitoring loop's asyncio.sleep
    strategy_manager,   \* TelegramBot.strategy_manager is set (truthy)
    user_interactions,  \* rows of table user_interactions, in insertion order
    obs,                \* what the operation of the last step did (its trace)
    tg_running,         \* TelegramBot.running
    tg_pc,              \* position of TelegramBot.start's keep-alive loop
    tg_sleep_left,      \* seconds left of the keep-alive loop's asyncio.sleep
    rep_running,        \* ReportingManager.running
    rep_pc,             \* position of start_daily_reports
    rep_sleep_left,     \* seconds left of the reporting loop's asyncio.sleep
    md_running,         \* MarketDataManager.running
    md_pc,              \* position of start_data_collection
    md_index,           \* index into all_symbols of the symbol being collected
    md_sleep_left,      \* seconds left of the collector's asyncio.sleep
    data_sources,       \* the clients _initialize_clients managed to build
    stopped_at,         \* clock value at which the components' stop() ran (Optional)
    orch_running,       \* TradingBotOrchestrator.running
    main_pc,            \* position of bot.py's __main__ block and main()
    env,                \* the environment variables that are set
    timeout_left,       \* seconds left of main's asyncio.wait_for timeout
    signalled,          \* a SIGINT / SIGTERM has been delivered
    db_state,           \* database.engine: uninitialised / initialised / failed
    day_signals         \* history: signals generated so far on the UTC date of clock

loopvars == <<tg_running, tg_pc, tg_sleep_left, rep_running, rep_pc,
              rep_sleep_left, md_running, md_pc, md_index, md_sleep_left,
              data_sources, stopped_at>>
mainvars == <<orch_running, main_pc, env, timeout_left, signalled, db_state>>
others == <<loopvars, mainvars>>

vars == <<clock, running, active_strategy, last_signal_time, signals_today,
          mon_pc, sleep_left, strategy_manager, user_interactions, obs,
          others, day_signals>>

(***************************** bounds ***************************************)
Granularity == 1800        \* the clock is observed every Granularity seconds
StartHour == 6             \* the process is constructed at day 0, 06:00 UTC
MaxSteps == 56             \* clock steps explored: up to day 1, 10:00 UTC

LoopStartHour == 13        \* the loops are started at day 0, 13:00 UTC
LoopHorizon == 40          \* seconds explored while the four loops run together
CollectorHorizon == 400    \* seconds explored while the collector runs alone
FlowHorizon == 30          \* seconds explored with collector, monitor and /generate
BotHorizon == 3900         \* seconds explored with monitor and chat handlers
CallsHorizon == 300        \* seconds explored with every caller of generate_signal
MonitorHorizon == 120      \* seconds explored with a monitoring loop whose ticks may raise

(*************************** program constants ******************************)
KeepAliveSleep == 1
ReportSleep == 3600
SymbolPause == 2
CyclePause == 300
ErrorPause == 60
StartTimeout == 60
MaxDailySignals == 3
ThrottleSeconds == 3600
MonitorSleep == 300
LondonOpen == 8
LondonClose == 17
NewYorkOpen == 13
NewYorkClose == 22
ScoreLo == 70
ScoreHi == 95
MinConfluence == 70
StopLossOffset == 30
TakeProfitOffset == 75
MockPrice == 10950
DefaultPrice == 10000
SecondsPerHour == 3600
SecondsPerDay == 86400
HoursPerDay == 24

(****************************** helpers *************************************)
StartClock == StartHour * SecondsPerHour
MaxClock == StartClock + MaxSteps * Granularity

None == <<>>
Some(v) == <<v>>
IsNone(o) == o = <<>>

\* datetime.hour and datetime.date() of a clock value
Hour(t) == (t \div SecondsPerHour) % HoursPerDay
Date(t) == t \div SecondsPerDay

Max(a, b) == IF a >= b THEN a ELSE b

(***************** StrategyManager.is_trading_session_active ****************)
\* mutant: the New York window closes one hour late (<= instead of <)
IsTradingSessionActive_LateClose(current_hour) ==
    LET london_session == LondonOpen <= current_hour /\ current_hour < LondonClose
        ny_session == NewYorkOpen <= current_hour /\ current_hour <= NewYorkClose
        overlap_session == NewYorkOpen <= current_hour /\ current_hour < LondonClose
    IN  IF overlap_session THEN TRUE
        ELSE IF london_session \/ ny_session THEN TRUE
        ELSE FALSE

IsTradingSessionActive(current_hour) ==
    LET london_session == LondonOpen <= current_hour /\ current_hour < LondonClose
        ny_session == NewYorkOpen <= current_hour /\ current_hour < NewYorkClose
        overlap_session == NewYorkOpen <= current_hour /\ current_hour < LondonClose
    IN  IF overlap_session THEN TRUE
        ELSE IF london_session \/ ny_session THEN TRUE
        ELSE FALSE

(********************* StrategyManager.generate_signal **********************)
\* mutant: the price of the market data is ignored
EntryPrice_Default(market_data) == DefaultPrice

\* market_data.get('current_price', 1.0000)
EntryPrice(market_data) ==
    IF "current_price" \in DOMAIN market_data
    THEN market_data["current_price"] ELSE DefaultPrice

\* mutant: the limit is never tested
DailyLimitReached_Never(today) == FALSE

\* mutant: the limit test is off by one (> instead of >=)
DailyLimitReached_OffByOne(today) == today > MaxDailySignals

\* The daily-limit test of generate_signal.
DailyLimitReached(today) == today >= MaxDailySignals

\* mutant: the SELL branch is a copy of the BUY branch with only the
\* stop-loss flipped
Levels_SellCopied(signal_type, entry_price) ==
    IF signal_type = "BUY"
    THEN [stop_loss |-> entry_price - StopLossOffset,
          take_profit |-> entry_price + TakeProfitOffset]
    ELSE [stop_loss |-> entry_price + StopLossOffset,
          take_profit |-> entry_price + TakeProfitOffset]

\* The stop-loss / take-profit levels of a signal.
Levels(signal_type, entry_price) ==
    IF signal_type = "BUY"
    THEN [stop_loss |-> entry_price - StopLossOffset,
          take_profit |-> entry_price + TakeProfitOffset]
    ELSE [stop_loss |-> entry_price + StopLossOffset,
          take_profit |-> entry_price - TakeProfitOffset]

\* mutant: a generated signal leaves last_signal_time as it was
StampedAt_Forgotten(now, last) == last

\* self.last_signal_time = datetime.now(timezone.utc)
StampedAt(now, last) == Some(now)

\* One call of generate_signal on the state (today, last, strategy) at time
\* now; confluence_score and signal_type are the two random draws.  The
\* result carries the return value and the state the call leaves.
GenerateSignal(today, last, strategy, symbol, market_data, now, confluence_score, signal_type) ==
    IF DailyLimitReached(today)
    THEN [ret |-> None, signals_today |-> today, last_signal_time |-> last]
    ELSE IF confluence_score >= MinConfluence
    THEN LET entry_price == EntryPrice(market_data)
             lv == Levels(signal_type, entry_price)
         IN  [ret |-> Some([symbol |-> symbol,
                            type |-> signal_type,
                            entry_price |-> entry_price,
                            stop_loss |-> lv.stop_loss,
                            take_profit |-> lv.take_profit,
                            confluence_score |-> confluence_score,
                            strategy |-> strategy,
                            session |-> "London/NY",
                            timestamp |-> now]),
              signals_today |-> today + 1,
              last_signal_time |-> StampedAt(now, last)]
    ELSE [ret |-> None, signals_today |-> today, last_signal_time |-> last]

Scores == ScoreLo .. ScoreHi
\* the draws of random.uniform(70, 95) the running system is explored with
DrawnScores == {ScoreLo, ScoreHi}
SignalTypes == {"BUY", "SELL"}

\* mutant: the callers hand the stub what the collector has just fetched
MockMarketData_FromCollector ==
    IF obs.op = "collect" /\ obs.input[1].data # <<>>
    THEN [k \in {"current_price"} |-> obs.input[1].data[1].quote]
    ELSE [k \in {"current_price"} |-> MockPrice]

\* {'current_price': 1.0950}, the mock market data of both callers
MockMarketData == [k \in {"current_price"} |-> MockPrice]

(***************************** observations *********************************)
\* The trace of one operation: which operation ran, the responses and log
\* attempts it made in order, what the session gate answered, the call of
\* generate_signal it made (state before the call, return value), and
\* whether the monitoring loop reset the daily counter, the update handled
\* and signals_today as the operation found it.
NoCall == <<>>
Call(pre_today, pre_last, ret) ==
    <<[pre_today |-> pre_today, pre_last |-> pre_last, ret |-> ret]>>

\* status is the data a /status reply is formatted from (NoStatus elsewhere)
NoStatus == <<>>
Obs(op, events, gate, call, reset, input) ==
    [op |-> op, events |-> events, gate |-> gate, call |-> call,
     reset |-> reset, input |-> input, entry_today |-> signals_today,
     status |-> NoStatus]

NoInput == <<>>
QuietObs(op) == Obs(op, <<>>, "unchecked", NoCall, FALSE, NoInput)

GateAnswer(open) == IF open THEN "open" ELSE "closed"

(************************* the other components *****************************)
\* bot.py __main__: the environment variables the process needs
required_env_vars == {"TELEGRAM_BOT_TOKEN", "DATABASE_URL", "ALPHA_VANTAGE_API_KEY"}

\* data_handler.py MarketDataHandler.__init__: the instruments, in the order
\* start_data_collection walks them
crypto_pairs == <<"BTCUSDT", "ETHUSDT", "ADAUSDT", "DOTUSDT">>
forex_pairs == <<"EURUSD", "GBPUSD", "USDJPY", "USDCHF", "AUDUSD", "USDCAD", "NZDUSD">>
commodities == <<"XAUUSD">>
all_symbols == crypto_pairs \o forex_pairs \o commodities
DataSources == {"bybit", "alpha_vantage"}

\* The components as their constructors leave them (TelegramBot.__init__,
\* ReportingManager.__init__, MarketDataHandler.__init__), inside a process
\* whose environment is complete and whose orchestrator has initialised.
OthersConstructed ==
    /\ tg_running = FALSE
    /\ tg_pc = "idle"
    /\ tg_sleep_left = 0
    /\ rep_running = FALSE
    /\ rep_pc = "idle"
    /\ rep_sleep_left = 0
    /\ md_running = FALSE
    /\ md_pc = "idle"
    /\ md_index = 1
    /\ md_sleep_left = 0
    /\ data_sources = DataSources
    /\ stopped_at = None
    /\ orch_running = FALSE
    /\ main_pc = "constructed"
    /\ env = required_env_vars
    /\ timeout_left = 0
    /\ signalled = FALSE
    /\ db_state = "initialised"
    /\ day_signals = 0

\* the components exist and their coroutines may run
ComponentsLive == main_pc \in {"constructed", "started", "serving"}

(******************************** Init **************************************)
\* bot.py TradingBotOrchestrator.initialize: the database is initialised, the
\* StrategyManager is constructed and handed to the TelegramBot.
Init ==
    /\ clock = StartClock
    /\ running = FALSE
    /\ active_strategy = "multi_confluence"
    /\ last_signal_time = None
    /\ signals_today = 0
    /\ mon_pc = "idle"
    /\ sleep_left = 0
    /\ strategy_manager = TRUE
    /\ user_interactions = <<>>
    /\ obs = QuietObs("init")
    /\ OthersConstructed

\* history of the signals generated on the current UTC date: a call that
\* returns a signal counts, and the count starts again when the date changes
CountedWith(ret, n) == IF IsNone(ret) THEN n ELSE n + 1
CountedAt(now, later, n) == IF Date(later) > Date(now) THEN 0 ELSE n

(****************************** the clock ***********************************)
Advance ==
    /\ clock + Granularity <= MaxClock
    /\ clock' = clock + Granularity
    /\ sleep_left' = Max(0, sleep_left - Granularity)
    /\ day_signals' = CountedAt(clock, clock + Granularity, day_signals)
    /\ obs' = QuietObs("advance")
    /\ UNCHANGED <<running, active_strategy, last_signal_time, signals_today,
                   mon_pc, strategy_manager, others, user_interactions>>

(********************* StrategyManager.start_monitoring *********************)
StartMonitoring ==
    /\ ComponentsLive
    /\ mon_pc = "idle"
    /\ running' = TRUE
    /\ mon_pc' = "loop"
    /\ obs' = QuietObs("start_monitoring")
    /\ UNCHANGED <<clock, active_strategy, last_signal_time, signals_today,
                   sleep_left, strategy_manager, others, day_signals, user_interactions>>

AtLoopHead == mon_pc = "loop" \/ (mon_pc = "sleep" /\ sleep_left = 0)

\* mutant: the date comparison is inverted
ResetDue_Inverted(current_time, last) ==
    ~IsNone(last) /\ Date(current_time) < Date(last[1])

\* mutant: the reset fires when the hour has changed since the last signal
ResetDue_Hourly(current_time, last) ==
    ~IsNone(last) /\ Hour(current_time) # Hour(last[1])

\* mutant: the reset also fires on the date of the last signal
ResetDue_SameDay(current_time, last) ==
    ~IsNone(last) /\ Date(current_time) >= Date(last[1])

\* the daily reset test of the loop body
ResetDue(current_time, last) ==
    ~IsNone(last) /\ Date(current_time) > Date(last[1])

\* mutant: the throttle compares with the poll interval instead of the hour
ThrottlePassed_PollInterval(current_time, last) ==
    IsNone(last) \/ current_time - last[1] > MonitorSleep

\* mutant: a signal exactly one hour old passes the throttle (>= instead of >)
ThrottlePassed_Inclusive(current_time, last) ==
    IsNone(last) \/ current_time - last[1] >= ThrottleSeconds

\* the hourly throttle test of the loop body
ThrottlePassed(current_time, last) ==
    IsNone(last) \/ current_time - last[1] > ThrottleSeconds

\* One iteration of the while loop, from the loop test to the sleep.
MonitorTick ==
    /\ AtLoopHead
    /\ running
    /\ LET current_time == clock
           reset == ResetDue(current_time, last_signal_time)
           today1 == IF reset THEN 0 ELSE signals_today
           open == IsTradingSessionActive(Hour(clock))
       IN  IF open /\ ThrottlePassed(current_time, last_signal_time)
           THEN \E score \in DrawnScores, signal_type \in SignalTypes :
                  LET r == GenerateSignal(today1, last_signal_time,
                                          active_strategy, "EURUSD",
                                          MockMarketData, clock,
                                          score, signal_type)
                  IN  /\ day_signals' = CountedWith(r.ret, day_signals)
                      /\ signals_today' = r.signals_today
                      /\ last_signal_time' = r.last_signal_time
                      /\ obs' = Obs("monitor", <<>>, GateAnswer(open),
                                    Call(today1, last_signal_time, r.ret),
                                    reset, NoInput)
           ELSE /\ day_signals' = day_signals
                /\ signals_today' = today1
                /\ last_signal_time' = last_signal_time
                /\ obs' = Obs("monitor", <<>>, GateAnswer(open), NoCall,
                              reset, NoInput)
    /\ mon_pc' = "sleep"
    /\ sleep_left' = MonitorSleep
    /\ UNCHANGED <<clock, running, active_strategy, strategy_manager, others,
                   user_interactions>>

\* the statements of the try block at which a tick may raise: the date
\* comparison, the log call after the reset, is_trading_session_active, and
\* the two log calls of generate_signal (limit reached, signal generated)
RaisePoints == {"reset_check", "reset_log", "session_check", "limit_log", "generated_log"}

\* mutant: the except branch logs the exception and raises it again
AfterTickError_Fatal == [pc |-> "failed", left |-> 0]

\* except Exception: log_error, then asyncio.sleep(60) and the loop test
AfterTickError == [pc |-> "sleep", left |-> ErrorPause]

\* One iteration of the while loop in which a statement of the try block
\* raises.  What the statements before it have assigned stays assigned: the
\* reset, and for the last log call of generate_signal the incremented
\* counter and last_signal_time (no signal is returned).  The except
\* branch logs the exception and sleeps.
MonitorTickRaised ==
    /\ AtLoopHead
    /\ running
    /\ \E at \in RaisePoints :
         LET current_time == clock
             reset == ResetDue(current_time, last_signal_time)
             today1 == IF reset THEN 0 ELSE signals_today
             open == IsTradingSessionActive(Hour(clock))
             calling == open /\ ThrottlePassed(current_time, last_signal_time)
             reached == {"reset_check", "session_check"}
                          \cup (IF reset THEN {"reset_log"} ELSE {})
                          \cup (IF calling /\ DailyLimitReached(today1) THEN {"limit_log"} ELSE {})
                          \cup (IF calling /\ ~DailyLimitReached(today1) THEN {"generated_log"} ELSE {})
             after == AfterTickError
         IN  /\ at \in reached
             /\ signals_today' =
                    IF at = "reset_check" THEN signals_today
                    ELSE IF at = "generated_log" THEN today1 + 1
                    ELSE today1
             /\ last_signal_time' =
                    IF at = "generated_log" THEN StampedAt(clock, last_signal_time)
                    ELSE last_signal_time
             /\ obs' = Obs("monitor_raised", <<"raise", "log_error">>,
                           IF at \in {"limit_log", "generated_log"} THEN GateAnswer(open) ELSE "unchecked",
                           NoCall, reset /\ at # "reset_check", Some([at |-> at]))
             /\ mon_pc' = after.pc
             /\ sleep_left' = after.left
    /\ UNCHANGED <<clock, running, active_strategy, strategy_manager, others,
                   day_signals, user_interactions>>

\* The loop test finds running = False: start_monitoring returns.
MonitorExit ==
    /\ AtLoopHead
    /\ ~running
    /\ mon_pc' = "done"
    /\ obs' = QuietObs("monitor_exit")
    /\ UNCHANGED <<clock, running, active_strategy, last_signal_time,
                   signals_today, sleep_left, strategy_manager, others, day_signals,
                   user_interactions>>

(************************* StrategyManager.stop *****************************)
Stop ==
    /\ running
    /\ running' = FALSE
    /\ obs' = QuietObs("stop")
    /\ UNCHANGED <<clock, active_strategy, last_signal_time, signals_today,
                   mon_pc, sleep_left, strategy_manager, others, day_signals, user_interactions>>

(************************ database.get_db_session ***************************)
\* get_db_session is declared "async def": calling it returns a coroutine
\* object, it does not run the body and it does not return the AsyncSession.
GetDbSession == [kind |-> "coroutine"]

\* "async with obj": obj must implement __aenter__ / __aexit__, which an
\* AsyncSession does and a coroutine object does not (TypeError).
SupportsAsyncWith(obj) == obj.kind = "session"

\* A UserInteraction row as the constructor call of _log_interaction fills
\* it; id is the uuid4 default, a fresh key.
UserInteraction(rows, user_id, interaction_type, command, context_data) ==
    [id |-> Len(rows) + 1,
     user_id |-> user_id,
     interaction_type |-> interaction_type,
     command |-> command,
     context_data |-> context_data]

(*********************** TelegramBot._log_interaction ***********************)
\* The whole body is inside try / except Exception: a failure is logged
\* with logger.log_error and swallowed.  db_ok says whether the database
\* would accept the insert and commit.
LogInteraction(rows, update, interaction_type, context_data) ==
    IF ~SupportsAsyncWith(GetDbSession)
    THEN [events |-> <<"log_attempt", "log_error">>, rows |-> rows]
    ELSE IF update.db_ok
    THEN [events |-> <<"log_attempt", "log_commit">>,
          rows |-> Append(rows, UserInteraction(rows, update.user_id,
                                   interaction_type, update.text, context_data))]
    ELSE [events |-> <<"log_attempt", "log_error">>, rows |-> rows]

(******************************* updates ************************************)
UserIds == {"42"}
NoContext == <<>>

\* An inbound update: who sent it, update.message.text (an Optional: a
\* callback query has no message text of its own here), callback data, and
\* whether the database is reachable while it is handled.
CommandUpdate(user_id, command, db_ok) ==
    [user_id |-> user_id, text |-> Some(command), data |-> None, db_ok |-> db_ok]

Texts == {"hello"}
CallbackData == {"settings_risk", "trade_taken_1", "noop"}

\* str.startswith on the callback data values
StartsWith(data, prefix) ==
    \/ prefix = "settings_" /\ data \in {"settings_risk"}
    \/ prefix = "trade_" /\ data \in {"trade_taken_1"}

\* mutant: the handler replies first and logs the interaction afterwards
ReplyThenLog(op, update, interaction_type, reply) ==
    LET lg == LogInteraction(user_interactions, update, interaction_type, NoContext)
    IN  /\ user_interactions' = lg.rows
        /\ obs' = Obs(op, <<reply>> \o lg.events, "unchecked", NoCall, FALSE,
                      Some(update))
        /\ UNCHANGED <<clock, running, active_strategy, last_signal_time,
                       signals_today, mon_pc, sleep_left, strategy_manager, others, day_signals>>

\* mutant: a handler with a fixed reply calls the signal stub as well
LogThenReply_Generating(op, update, interaction_type, reply) ==
    LET lg == LogInteraction(user_interactions, update, interaction_type, NoContext)
        r == GenerateSignal(signals_today, last_signal_time, active_strategy,
                            "EURUSD", MockMarketData, clock, ScoreLo, "BUY")
    IN  /\ user_interactions' = lg.rows
        /\ day_signals' = CountedWith(r.ret, day_signals)
        /\ signals_today' = r.signals_today
        /\ last_signal_time' = r.last_signal_time
        /\ obs' = Obs(op, lg.events \o <<reply>>, "unchecked",
                      Call(signals_today, last_signal_time, r.ret), FALSE, Some(update))
        /\ UNCHANGED <<clock, running, active_strategy, mon_pc, sleep_left,
                       strategy_manager, others>>

\* A handler that logs the interaction and then sends one fixed reply.
LogThenReply(op, update, interaction_type, reply) ==
    LET lg == LogInteraction(user_interactions, update, interaction_type, NoContext)
    IN  /\ user_interactions' = lg.rows
        /\ obs' = Obs(op, lg.events \o <<reply>>, "unchecked", NoCall, FALSE,
                      Some(update))
        /\ UNCHANGED <<clock, running, active_strategy, last_signal_time,
                       signals_today, mon_pc, sleep_left, strategy_manager, others, day_signals>>

cmd_start ==
    \E u \in UserIds, db_ok \in BOOLEAN :
        LogThenReply("cmd_start", CommandUpdate(u, "/start", db_ok),
                     "start_command", "reply_welcome")

cmd_help ==
    \E u \in UserIds, db_ok \in BOOLEAN :
        LogThenReply("cmd_help", CommandUpdate(u, "/help", db_ok),
                     "help_command", "reply_help")

\* mutant: the status is read from the strategy manager
GetSystemStatus_Live(today, last) ==
    [system_status |-> "Online",
     data_feed_status |-> "Connected",
     active_strategy |-> "Multi-Confluence",
     signals_today |-> today,
     daily_pnl |-> 0,
     last_signal_time |-> IF IsNone(last) THEN "No signals today" ELSE "Today",
     uptime |-> "Just started"]

\* _get_system_status: a fixed dictionary, whatever the counters of the
\* strategy manager (today, last) are
GetSystemStatus(today, last) ==
    [system_status |-> "Online",
     data_feed_status |-> "Connected",
     active_strategy |-> "Multi-Confluence",
     signals_today |-> 0,
     daily_pnl |-> 0,
     last_signal_time |-> "No signals today",
     uptime |-> "Just started"]

\* _cmd_status: the interaction is logged, then one reply is sent, its seven
\* lines formatted from the status data
cmd_status ==
    \E u \in UserIds, db_ok \in BOOLEAN :
        LET update == CommandUpdate(u, "/status", db_ok)
            lg == LogInteraction(user_interactions, update, "status_command", NoContext)
            status_data == GetSystemStatus(signals_today, last_signal_time)
        IN  /\ user_interactions' = lg.rows
            /\ obs' = [Obs("cmd_status", lg.events \o <<"reply_status">>,
                           "unchecked", NoCall, FALSE, Some(update))
                           EXCEPT !.status = Some(status_data)]
            /\ UNCHANGED <<clock, running, active_strategy, last_signal_time,
                           signals_today, mon_pc, sleep_left, strategy_manager, others, day_signals>>

cmd_performance ==
    \E u \in UserIds, db_ok \in BOOLEAN :
        LogThenReply("cmd_performance", CommandUpdate(u, "/performance", db_ok),
                     "performance_command", "reply_performance")

cmd_trades ==
    \E u \in UserIds, db_ok \in BOOLEAN :
        LogThenReply("cmd_trades", CommandUpdate(u, "/trades", db_ok),
                     "trades_command", "reply_trades")

cmd_settings ==
    \E u \in UserIds, db_ok \in BOOLEAN :
        LogThenReply("cmd_settings", CommandUpdate(u, "/settings", db_ok),
                     "settings_command", "reply_settings")

\* /signals opens a second database session, outside any try block, before
\* it replies: when that "async with" raises, the handler is left by the
\* exception and the reply is never sent.
SignalsSessionOpens == SupportsAsyncWith(GetDbSession)

cmd_signals ==
    \E u \in UserIds, db_ok \in BOOLEAN :
        LET update == CommandUpdate(u, "/signals", db_ok)
            lg == LogInteraction(user_interactions, update, "signals_command",
                                 NoContext)
            rest == IF SignalsSessionOpens /\ db_ok
                    THEN <<"reply_signals">> ELSE <<"raise">>
        IN  /\ user_interactions' = lg.rows
            /\ obs' = Obs("cmd_signals", lg.events \o rest, "unchecked", NoCall,
                          FALSE, Some(update))
            /\ UNCHANGED <<clock, running, active_strategy, last_signal_time,
                           signals_today, mon_pc, sleep_left, strategy_manager, others, day_signals>>

\* mutant: /generate does not test the session
GenerateGateOpen_Always(current_hour) == TRUE

\* mutant: /generate only tests the end of the trading day
GenerateGateOpen_NoOpening(current_hour) == current_hour < NewYorkClose

\* The session test of /generate: the stub is reached only past it.
GenerateGateOpen(current_hour) == IsTradingSessionActive(current_hour)

\* The except branch of /generate surfacing the exception itself.
GenerateReply_Traceback(ret, send_ok) == IF send_ok THEN <<IF IsNone(ret) THEN "reply_no_signal" ELSE "reply_signal">> ELSE <<"send_error", "log_error", "reply_traceback">>

\* The try block of /generate after the stub returned: the signal message or
\* the no-signal explanation is sent; when the send raises, the except branch
\* logs the error and sends the fixed text "Error generating signal. Please
\* try again later.".
GenerateReply(ret, send_ok) == IF send_ok THEN <<IF IsNone(ret) THEN "reply_no_signal" ELSE "reply_signal">> ELSE <<"send_error", "log_error", "reply_error_generating">>

cmd_generate_signal ==
    \E u \in UserIds, db_ok \in BOOLEAN, send_ok \in BOOLEAN :
        LET update == CommandUpdate(u, "/generate", db_ok)
            lg == LogInteraction(user_interactions, update,
                                 "generate_signal_command", NoContext)
            open == GenerateGateOpen(Hour(clock))
        IN  /\ user_interactions' = lg.rows
            /\ IF ~strategy_manager
               THEN /\ obs' = Obs("cmd_generate_signal",
                                  lg.events \o <<"reply_strategy_unavailable">>,
                                  "unchecked", NoCall, FALSE, Some(update))
                    /\ UNCHANGED <<signals_today, last_signal_time, day_signals>>
               ELSE IF ~open
               THEN /\ obs' = Obs("cmd_generate_signal",
                                  lg.events \o <<"reply_not_in_session">>,
                                  GateAnswer(open), NoCall, FALSE, Some(update))
                    /\ UNCHANGED <<signals_today, last_signal_time, day_signals>>
               ELSE \E score \in DrawnScores, signal_type \in SignalTypes :
                      LET r == GenerateSignal(signals_today, last_signal_time,
                                              active_strategy, "EURUSD",
                                              MockMarketData, clock,
                                              score, signal_type)
                          reply == GenerateReply(r.ret, send_ok)
                      IN  /\ day_signals' = CountedWith(r.ret, day_signals)
                          /\ signals_today' = r.signals_today
                          /\ last_signal_time' = r.last_signal_time
                          /\ obs' = Obs("cmd_generate_signal",
                                        lg.events \o reply, GateAnswer(open),
                                        Call(signals_today, last_signal_time, r.ret),
                                        FALSE, Some(update))
            /\ UNCHANGED <<clock, running, active_strategy, mon_pc, sleep_left,
                           strategy_manager, others>>

\* _handle_callback: query.answer() is awaited first, then the interaction
\* is logged with the callback data as context, then the data is dispatched.
handle_callback ==
    \E u \in UserIds, db_ok \in BOOLEAN, data \in CallbackData :
        LET update == [user_id |-> u, text |-> None, data |-> Some(data),
                       db_ok |-> db_ok]
            lg == LogInteraction(user_interactions, update, "callback_query",
                                 Some(data))
            rest == IF StartsWith(data, "settings_") THEN <<"edit_settings">>
                    ELSE IF StartsWith(data, "trade_") THEN <<"edit_trade">>
                    ELSE <<>>
        IN  /\ user_interactions' = lg.rows
            /\ obs' = Obs("handle_callback", <<"answer">> \o lg.events \o rest,
                          "unchecked", NoCall, FALSE, Some(update))
            /\ UNCHANGED <<clock, running, active_strategy, last_signal_time,
                           signals_today, mon_pc, sleep_left, strategy_manager, others, day_signals>>

handle_message ==
    \E u \in UserIds, db_ok \in BOOLEAN, text \in Texts :
        LET update == [user_id |-> u, text |-> Some(text), data |-> None,
                       db_ok |-> db_ok]
            lg == LogInteraction(user_interactions, update, "text_message",
                                 Some(text))
        IN  /\ user_interactions' = lg.rows
            /\ obs' = Obs("handle_message", lg.events \o <<"reply_received">>,
                          "unchecked", NoCall, FALSE, Some(update))
            /\ UNCHANGED <<clock, running, active_strategy, last_signal_time,
                           signals_today, mon_pc, sleep_left, strategy_manager, others, day_signals>>

Handlers ==
    \/ cmd_start \/ cmd_help \/ cmd_status \/ cmd_performance
    \/ cmd_signals \/ cmd_trades \/ cmd_settings \/ cmd_generate_signal
    \/ handle_callback \/ handle_message

\* The strategy manager and everything that reaches it: the clock, the
\* monitoring loop, stop() and the /generate command.
Next ==
    \/ Advance \/ StartMonitoring \/ MonitorTick \/ MonitorExit \/ Stop
    \/ cmd_generate_signal

Spec == Init /\ [][Next]_vars

\* The chat relay: every handler of _setup_handlers, with the clock.
NextRelay == Advance \/ Handlers

SpecRelay == Init /\ [][NextRelay]_vars

(******************** the signal stub called directly ***********************)
\* generate_signal is a public method: it is called here at any hour, for
\* any symbol and any market data (with and without a current_price).
StubHours == {3, 14, 22}
StubSymbols == {"EURUSD", "BTCUSDT"}
StubPrices == {StopLossOffset, MockPrice, MockPrice * MockPrice}
StubMarketData ==
    {<<>>} \cup {[k \in {"current_price"} |-> p] : p \in StubPrices}

InitStub ==
    /\ clock \in {h * SecondsPerHour : h \in StubHours}
    /\ running = FALSE
    /\ active_strategy = "multi_confluence"
    /\ last_signal_time = None
    /\ signals_today = 0
    /\ mon_pc = "idle"
    /\ sleep_left = 0
    /\ strategy_manager = TRUE
    /\ user_interactions = <<>>
    /\ obs = QuietObs("init")
    /\ OthersConstructed

generate_signal ==
    \E symbol \in StubSymbols, market_data \in StubMarketData,
       score \in Scores, signal_type \in SignalTypes :
        LET r == GenerateSignal(signals_today, last_signal_time,
                                active_strategy, symbol, market_data, clock,
                                score, signal_type)
        IN  /\ day_signals' = CountedWith(r.ret, day_signals)
            /\ signals_today' = r.signals_today
            /\ last_signal_time' = r.last_signal_time
            /\ obs' = Obs("generate_signal", <<>>, "unchecked",
                          Call(signals_today, last_signal_time, r.ret), FALSE,
                          Some([symbol |-> symbol, market_data |-> market_data]))
            /\ UNCHANGED <<clock, running, active_strategy, mon_pc, sleep_left,
                           strategy_manager, others, user_interactions>>

SpecStub == InitStub /\ [][generate_signal]_vars

(****************************************************************************)
(*            The polling loops of the other components                     *)
(****************************************************************************)
strategyvars == <<running, active_strategy, last_signal_time, signals_today, mon_pc, sleep_left, strategy_manager, day_signals>>
tgvars == <<tg_running, tg_pc, tg_sleep_left>>
repvars == <<rep_running, rep_pc, rep_sleep_left>>
mdvars == <<md_running, md_pc, md_index, md_sleep_left, data_sources>>

LoopStart == LoopStartHour * SecondsPerHour

(************************ TelegramBot.start / stop **************************)
\* TelegramBot.start up to the keep-alive loop: the application is built and
\* polling starts, then running is set; a failure on the way is logged and
\* raised again.
telegram_start ==
    /\ ComponentsLive
    /\ tg_pc = "idle"
    /\ \E start_ok \in BOOLEAN :
         IF start_ok
         THEN /\ tg_running' = TRUE
              /\ tg_pc' = "loop"
              /\ obs' = Obs("telegram_start", <<"start_polling">>, "unchecked", NoCall, FALSE, NoInput)
         ELSE /\ tg_pc' = "failed"
              /\ obs' = Obs("telegram_start", <<"log_error", "raise">>, "unchecked", NoCall, FALSE, NoInput)
              /\ UNCHANGED tg_running
    /\ UNCHANGED <<clock, strategyvars, user_interactions, tg_sleep_left, repvars, mdvars, stopped_at, mainvars>>

KeepAliveAtLoopHead == tg_pc = "loop" \/ (tg_pc = "sleep" /\ tg_sleep_left = 0)

\* mutant: the keep-alive loop sleeps five seconds
KeepAliveTick_Slow ==
    /\ KeepAliveAtLoopHead
    /\ tg_running
    /\ tg_pc' = "sleep"
    /\ tg_sleep_left' = 5
    /\ obs' = QuietObs("keep_alive")
    /\ UNCHANGED <<clock, strategyvars, user_interactions, tg_running, repvars, mdvars, stopped_at, mainvars>>

\* while self.running: await asyncio.sleep(1)
KeepAliveTick ==
    /\ KeepAliveAtLoopHead
    /\ tg_running
    /\ tg_pc' = "sleep"
    /\ tg_sleep_left' = KeepAliveSleep
    /\ obs' = QuietObs("keep_alive")
    /\ UNCHANGED <<clock, strategyvars, user_interactions, tg_running, repvars, mdvars, stopped_at, mainvars>>

KeepAliveExit ==
    /\ KeepAliveAtLoopHead
    /\ ~tg_running
    /\ tg_pc' = "done"
    /\ obs' = QuietObs("keep_alive_exit")
    /\ UNCHANGED <<clock, strategyvars, user_interactions, tg_running, tg_sleep_left, repvars, mdvars, stopped_at, mainvars>>

(******************** ReportingSystem.start_daily_reports *******************)
start_daily_reports ==
    /\ ComponentsLive
    /\ rep_pc = "idle"
    /\ rep_running' = TRUE
    /\ rep_pc' = "loop"
    /\ obs' = QuietObs("start_daily_reports")
    /\ UNCHANGED <<clock, strategyvars, user_interactions, tgvars, rep_sleep_left, mdvars, stopped_at, mainvars>>

ReportsAtLoopHead == rep_pc = "loop" \/ (rep_pc = "sleep" /\ rep_sleep_left = 0)

\* while self.running: await asyncio.sleep(3600)
ReportsTick ==
    /\ ReportsAtLoopHead
    /\ rep_running
    /\ rep_pc' = "sleep"
    /\ rep_sleep_left' = ReportSleep
    /\ obs' = QuietObs("reports")
    /\ UNCHANGED <<clock, strategyvars, user_interactions, tgvars, rep_running, mdvars, stopped_at, mainvars>>

ReportsExit ==
    /\ ReportsAtLoopHead
    /\ ~rep_running
    /\ rep_pc' = "done"
    /\ obs' = QuietObs("reports_exit")
    /\ UNCHANGED <<clock, strategyvars, user_interactions, tgvars, rep_running, rep_sleep_left, mdvars, stopped_at, mainvars>>

(****************** MarketDataHandler.start_data_collection *****************)
Range(seq) == {seq[i] : i \in 1..Len(seq)}

\* what the provider does with one request: it returns rows, returns no
\* rows, answers with an error code, or the call raises
FetchAnswers == {"data", "empty", "api_error", "raise"}
QuotedPrices == {DefaultPrice, MockPrice + MockPrice}

\* get_crypto_data: missing client, rows, no rows (nothing logged), retCode
\* other than 0, exception
get_crypto_data(symbol, sources, answer, quote) ==
    IF "bybit" \notin sources
    THEN [data |-> None, events |-> <<"log_client_not_available">>]
    ELSE IF answer = "data"
    THEN [data |-> Some([symbol |-> symbol, source |-> "bybit", quote |-> quote]),
          events |-> <<"log_retrieved">>]
    ELSE IF answer = "empty" THEN [data |-> None, events |-> <<>>]
    ELSE IF answer = "api_error" THEN [data |-> None, events |-> <<"log_api_error">>]
    ELSE [data |-> None, events |-> <<"log_error">>]

\* get_forex_data: missing client, rows, no rows (nothing logged); the
\* client reports a provider error by raising
get_forex_data(symbol, sources, answer, quote) ==
    IF "alpha_vantage" \notin sources
    THEN [data |-> None, events |-> <<"log_client_not_available">>]
    ELSE IF answer = "data"
    THEN [data |-> Some([symbol |-> symbol, source |-> "alpha_vantage", quote |-> quote]),
          events |-> <<"log_retrieved">>]
    ELSE IF answer = "empty" THEN [data |-> None, events |-> <<>>]
    ELSE [data |-> None, events |-> <<"log_error">>]

get_market_data(symbol, sources, answer, quote) ==
    IF symbol \in Range(crypto_pairs)
    THEN get_crypto_data(symbol, sources, answer, quote)
    ELSE IF symbol \in Range(forex_pairs) \/ symbol \in Range(commodities)
    THEN get_forex_data(symbol, sources, answer, quote)
    ELSE [data |-> None, events |-> <<"log_unsupported">>]

start_data_collection ==
    /\ ComponentsLive
    /\ md_pc = "idle"
    /\ md_running' = TRUE
    /\ md_pc' = "loop"
    /\ obs' = QuietObs("start_data_collection")
    /\ UNCHANGED <<clock, strategyvars, user_interactions, tgvars, repvars, md_index, md_sleep_left, data_sources, stopped_at, mainvars>>

CollectorAtLoopHead ==
    md_pc = "loop" \/ (md_pc \in {"cycle_pause", "error_pause"} /\ md_sleep_left = 0)

\* mutant: a symbol without data ends the collection
AfterSymbol_Fatal(data, escaped) ==
    IF escaped THEN [pc |-> "error_pause", left |-> ErrorPause]
    ELSE IF IsNone(data) THEN [pc |-> "done", left |-> 0]
    ELSE [pc |-> "symbol_pause", left |-> SymbolPause]

\* Where the body of the for loop leaves the collector: in the two-second
\* pause before the next symbol, or, when an exception left the try block,
\* in the sixty-second pause of the except branch.
AfterSymbol(data, escaped) ==
    IF escaped THEN [pc |-> "error_pause", left |-> ErrorPause]
    ELSE [pc |-> "symbol_pause", left |-> SymbolPause]

\* The body of the for loop for the i-th symbol.  An exception of the body
\* that no fetch function catches (the log call of line 161, say) is the
\* input "escaped"; the except branch logs it.
CollectSymbolAt(i) ==
    \E answer \in FetchAnswers, quote \in QuotedPrices, escaped \in BOOLEAN :
        LET f == get_market_data(all_symbols[i], data_sources, answer, quote)
            collected == IF IsNone(f.data) THEN <<>> ELSE <<"log_collected">>
            caught == IF escaped THEN <<"raise", "log_cycle_error">> ELSE <<>>
            after == AfterSymbol(f.data, escaped)
        IN  /\ md_index' = i
            /\ md_pc' = after.pc
            /\ md_sleep_left' = after.left
            /\ obs' = Obs("collect", f.events \o collected \o caught, "unchecked", NoCall, FALSE,
                          Some([symbol |-> all_symbols[i], answer |-> answer, data |-> f.data]))

\* The loop test succeeds and a cycle starts with the first symbol.
CollectionCycle ==
    /\ CollectorAtLoopHead
    /\ md_running
    /\ CollectSymbolAt(1)
    /\ UNCHANGED <<clock, strategyvars, user_interactions, tgvars, repvars, md_running, data_sources, stopped_at, mainvars>>

\* mutant: the for loop does not test the flag
CycleOver_IgnoresFlag(index, flag) == index = Len(all_symbols)

\* the for loop is over: all_symbols is exhausted, or "if not self.running:
\* break"
CycleOver(index, flag) == index = Len(all_symbols) \/ ~flag

\* After the pause that follows a symbol: the for loop ends after the last
\* symbol or breaks when running is False, and the cycle pause starts;
\* otherwise the next symbol is collected.
CollectNext ==
    /\ md_pc = "symbol_pause"
    /\ md_sleep_left = 0
    /\ IF CycleOver(md_index, md_running)
       THEN /\ md_pc' = "cycle_pause"
            /\ md_sleep_left' = CyclePause
            /\ obs' = QuietObs(IF md_index = Len(all_symbols) THEN "cycle_end" ELSE "cycle_break")
            /\ UNCHANGED md_index
       ELSE CollectSymbolAt(md_index + 1)
    /\ UNCHANGED <<clock, strategyvars, user_interactions, tgvars, repvars, md_running, data_sources, stopped_at, mainvars>>

CollectorExit ==
    /\ CollectorAtLoopHead
    /\ ~md_running
    /\ md_pc' = "done"
    /\ obs' = QuietObs("collector_exit")
    /\ UNCHANGED <<clock, strategyvars, user_interactions, tgvars, repvars, md_running, md_index, md_sleep_left, data_sources, stopped_at, mainvars>>

(***************************** elapsing time ********************************)
LoopNames == {"telegram", "monitor", "reports", "collector"}

PcOf(l) ==
    CASE l = "telegram" -> tg_pc
      [] l = "monitor" -> mon_pc
      [] l = "reports" -> rep_pc
      [] l = "collector" -> md_pc

LeftOf(l) ==
    CASE l = "telegram" -> tg_sleep_left
      [] l = "monitor" -> sleep_left
      [] l = "reports" -> rep_sleep_left
      [] l = "collector" -> md_sleep_left

FlagOf(l) ==
    CASE l = "telegram" -> tg_running
      [] l = "monitor" -> running
      [] l = "reports" -> rep_running
      [] l = "collector" -> md_running

SleepPcs == {"sleep", "symbol_pause", "cycle_pause", "error_pause"}
Sleeping(l) == PcOf(l) \in SleepPcs
Ready(l) == PcOf(l) = "loop" \/ (Sleeping(l) /\ LeftOf(l) = 0)
TimeoutArmed == main_pc = "serving"

\* the timers that are running: the sleeps of the loops and main's timeout
Pending ==
    {LeftOf(l) : l \in {k \in LoopNames : Sleeping(k) /\ LeftOf(k) > 0}}
        \cup (IF TimeoutArmed /\ timeout_left > 0 THEN {timeout_left} ELSE {})

Min(S) == CHOOSE x \in S : \A y \in S : x <= y

\* Time passes until the next timer fires.  The event loop runs every task
\* that is ready before it waits: time passes only when each participating
\* loop has been started and is asleep (or has ended).  The horizon bounds
\* the exploration while some loop is still told to run.
Elapse(participants, horizon) ==
    /\ ComponentsLive
    /\ \A l \in participants : PcOf(l) # "idle" /\ ~Ready(l)
    /\ ~(TimeoutArmed /\ (timeout_left = 0 \/ tg_pc = "failed"))
    /\ Pending # {}
    /\ LET d == Min(Pending)
       IN  /\ (\E l \in LoopNames : FlagOf(l)) => clock + d <= LoopStart + horizon
           /\ clock' = clock + d
           /\ day_signals' = CountedAt(clock, clock + d, day_signals)
           /\ sleep_left' = Max(0, sleep_left - d)
           /\ tg_sleep_left' = Max(0, tg_sleep_left - d)
           /\ rep_sleep_left' = Max(0, rep_sleep_left - d)
           /\ md_sleep_left' = Max(0, md_sleep_left - d)
           /\ timeout_left' = Max(0, timeout_left - d)
    /\ obs' = QuietObs("elapse")
    /\ UNCHANGED <<running, active_strategy, last_signal_time, signals_today, mon_pc, strategy_manager, user_interactions>>
    /\ UNCHANGED <<tg_running, tg_pc, rep_running, rep_pc, md_running, md_pc, md_index, data_sources, stopped_at>>
    /\ UNCHANGED <<orch_running, main_pc, env, signalled, db_state>>

(********************** TradingBotOrchestrator.stop *************************)
\* The body of stop(): nothing unless the orchestrator's own flag is set;
\* then TelegramBot.stop (which clears its flag only when it is set) and the
\* stop() of the three other components.
StopEffect ==
    IF orch_running
    THEN /\ orch_running' = FALSE
         /\ tg_running' = FALSE
         /\ running' = FALSE
         /\ rep_running' = FALSE
         /\ md_running' = FALSE
         /\ stopped_at' = Some(clock)
    ELSE UNCHANGED <<orch_running, tg_running, running, rep_running, md_running, stopped_at>>

\* stop() called by the code that awaits start()
orchestrator_stop ==
    /\ main_pc = "started"
    /\ StopEffect
    /\ obs' = QuietObs("orchestrator_stop")
    /\ UNCHANGED <<clock, active_strategy, last_signal_time, signals_today, day_signals, mon_pc, sleep_left, strategy_manager, user_interactions>>
    /\ UNCHANGED <<tg_pc, tg_sleep_left, rep_pc, rep_sleep_left, md_pc, md_index, md_sleep_left, data_sources>>
    /\ UNCHANGED <<main_pc, env, timeout_left, signalled, db_state>>

\* The orchestrator's start() has initialised the components and set its
\* flag (bot.py:90-91); the four coroutines are about to be gathered.
InitLoops ==
    /\ clock = LoopStart
    /\ running = FALSE
    /\ active_strategy = "multi_confluence"
    /\ last_signal_time = None
    /\ signals_today = 0
    /\ mon_pc = "idle"
    /\ sleep_left = 0
    /\ strategy_manager = TRUE
    /\ user_interactions = <<>>
    /\ obs = QuietObs("init")
    /\ tg_running = FALSE
    /\ tg_pc = "idle"
    /\ tg_sleep_left = 0
    /\ rep_running = FALSE
    /\ rep_pc = "idle"
    /\ rep_sleep_left = 0
    /\ md_running = FALSE
    /\ md_pc = "idle"
    /\ md_index = 1
    /\ md_sleep_left = 0
    /\ data_sources \in SUBSET DataSources
    /\ stopped_at = None
    /\ orch_running = TRUE
    /\ main_pc = "started"
    /\ env = required_env_vars
    /\ timeout_left = 0
    /\ signalled = FALSE
    /\ db_state = "initialised"
    /\ day_signals = 0

ElapseLoops == Elapse(LoopNames, LoopHorizon)

NextLoops ==
    \/ ElapseLoops
    \/ telegram_start \/ KeepAliveTick \/ KeepAliveExit
    \/ StartMonitoring \/ MonitorTick \/ MonitorExit
    \/ start_daily_reports \/ ReportsTick \/ ReportsExit
    \/ start_data_collection \/ CollectionCycle \/ CollectNext \/ CollectorExit
    \/ orchestrator_stop

SpecLoops == InitLoops /\ [][NextLoops]_vars

\* The collector alone, started and stopped by the code that owns it.
ElapseCollector == Elapse({"collector"}, CollectorHorizon)

NextCollector ==
    \/ ElapseCollector
    \/ start_data_collection \/ CollectionCycle \/ CollectNext \/ CollectorExit
    \/ orchestrator_stop

SpecCollector == InitLoops /\ [][NextCollector]_vars

\* The collector beside the two callers of the signal stub.
ElapseFlow == Elapse({"collector", "monitor"}, FlowHorizon)

NextFlow ==
    \/ ElapseFlow
    \/ start_data_collection \/ CollectionCycle \/ CollectNext
    \/ StartMonitoring \/ MonitorTick
    \/ cmd_generate_signal

SpecFlow == InitLoops /\ [][NextFlow]_vars

\* The monitoring loop beside every handler of the chat relay.
ElapseBot == Elapse({"monitor"}, BotHorizon)

NextBot == ElapseBot \/ StartMonitoring \/ MonitorTick \/ Handlers

InitBot == InitLoops /\ data_sources = DataSources

SpecBot == InitBot /\ [][NextBot]_vars

\* The monitoring loop with ticks that raise, stop() and /generate.
ElapseMonitor == Elapse({"monitor"}, MonitorHorizon)

NextMonitor ==
    \/ ElapseMonitor \/ Advance
    \/ StartMonitoring \/ MonitorTick \/ MonitorTickRaised \/ MonitorExit \/ Stop

SpecMonitor == InitLoops /\ [][NextMonitor]_vars

\* Every caller of generate_signal together: the monitoring loop, /generate
\* and direct calls with any symbol and any market data.
ElapseCalls == Elapse({"monitor"}, CallsHorizon)

NextCalls ==
    \/ ElapseCalls
    \/ StartMonitoring \/ MonitorTick
    \/ cmd_generate_signal \/ generate_signal

SpecCalls == InitLoops /\ [][NextCalls]_vars

(****************************************************************************)
(*                    bot.py: __main__, main, orchestrator                  *)
(****************************************************************************)
\* mutant: only the bot token is looked for
MissingVars_TokenOnly(e) == {"TELEGRAM_BOT_TOKEN"} \ e

\* missing_vars = [var for var in required_env_vars if not os.getenv(var)]
MissingVars(e) == required_env_vars \ e

\* The process as the interpreter enters the __main__ block: nothing is
\* initialised or constructed, no coroutine exists; any of the required
\* variables may be missing.
InitMain ==
    /\ clock = LoopStart
    /\ running = FALSE
    /\ active_strategy = "multi_confluence"
    /\ last_signal_time = None
    /\ signals_today = 0
    /\ mon_pc = "idle"
    /\ sleep_left = 0
    /\ strategy_manager = FALSE
    /\ user_interactions = <<>>
    /\ obs = QuietObs("init")
    /\ tg_running = FALSE
    /\ tg_pc = "idle"
    /\ tg_sleep_left = 0
    /\ rep_running = FALSE
    /\ rep_pc = "idle"
    /\ rep_sleep_left = 0
    /\ md_running = FALSE
    /\ md_pc = "idle"
    /\ md_index = 1
    /\ md_sleep_left = 0
    /\ data_sources = {}
    /\ stopped_at = None
    /\ orch_running = FALSE
    /\ main_pc = "check_env"
    /\ env \in SUBSET required_env_vars
    /\ timeout_left = 0
    /\ signalled = FALSE
    /\ db_state = "uninitialised"
    /\ day_signals = 0

\* The __main__ block: sys.exit(1) when a required variable is missing,
\* asyncio.run(main()) otherwise; main installs the signal handlers.
CheckEnv ==
    /\ main_pc = "check_env"
    /\ IF MissingVars(env) # {}
       THEN /\ main_pc' = "exit_1"
            /\ obs' = Obs("check_env", <<"log_missing", "exit_1">>, "unchecked", NoCall, FALSE, NoInput)
       ELSE /\ main_pc' = "main"
            /\ obs' = QuietObs("check_env")
    /\ UNCHANGED <<clock, strategyvars, user_interactions, loopvars>>
    /\ UNCHANGED <<orch_running, env, timeout_left, signalled, db_state>>

\* the steps of initialize, in order; each of them may raise
InitSteps == <<"init_database", "MarketDataHandler", "StrategyManager", "ReportingSystem", "TelegramBot">>
NoFailure == Len(InitSteps) + 1
\* initialize got past the step: it is not the failing one nor after it
StepDone(step, failed) == step < failed

\* mutant: initialize logs the exception and returns
StartProceeds_Swallowed(failed) == TRUE

\* start() goes on to set its flag and gather the loops when initialize
\* has returned; the except branch of initialize raises again
StartProceeds(failed) == failed = NoFailure

\* main awaits wait_for(start(), 60): start runs initialize (database, then
\* the four components), sets the orchestrator's flag and gathers the four
\* coroutines.  An exception of init_database or of a constructor ends
\* initialize at that step; it is logged and raised by initialize and by
\* start, logged by main's except branch, and the finally block awaits
\* stop(), which finds the flag unset.
orchestrator_start ==
    /\ main_pc = "main"
    /\ \E failed \in 1..NoFailure, built \in SUBSET DataSources :
         /\ db_state' = IF StepDone(1, failed) THEN "initialised" ELSE "failed"
         /\ data_sources' = IF StepDone(2, failed) THEN built ELSE {}
         /\ strategy_manager' = StepDone(3, failed)
         /\ IF StartProceeds(failed)
            THEN /\ orch_running' = TRUE
                 /\ timeout_left' = StartTimeout
                 /\ main_pc' = "serving"
                 /\ obs' = QuietObs("orchestrator_start")
            ELSE /\ main_pc' = "exited"
                 /\ obs' = Obs("orchestrator_start", <<"log_error", "raise", "stop">>, "unchecked", NoCall, FALSE, NoInput)
                 /\ UNCHANGED <<orch_running, timeout_left>>
    /\ UNCHANGED <<clock, running, active_strategy, last_signal_time, signals_today, day_signals, mon_pc, sleep_left, user_interactions>>
    /\ UNCHANGED <<tgvars, repvars, md_running, md_pc, md_index, md_sleep_left, stopped_at, env, signalled>>

\* main.signal_handler, installed for SIGINT and SIGTERM
signal_handler ==
    /\ main_pc \in {"main", "serving"}
    /\ ~signalled
    /\ signalled' = TRUE
    /\ orch_running' = FALSE
    /\ obs' = QuietObs("signal_handler")
    /\ UNCHANGED <<clock, strategyvars, user_interactions, loopvars>>
    /\ UNCHANGED <<main_pc, env, timeout_left, db_state>>

\* The timeout of wait_for fires: start() and with it the gathered
\* coroutines are cancelled, TimeoutError is logged and raised into main's
\* except branch, and the finally block awaits stop().
StartTimedOut ==
    /\ main_pc = "serving"
    /\ timeout_left = 0
    /\ tg_pc # "failed"
    /\ tg_pc' = "cancelled"
    /\ mon_pc' = "cancelled"
    /\ rep_pc' = "cancelled"
    /\ md_pc' = "cancelled"
    /\ StopEffect
    /\ main_pc' = "exited"
    /\ obs' = Obs("main", <<"timeout", "log_error", "stop">>, "unchecked", NoCall, FALSE, NoInput)
    /\ UNCHANGED <<clock, active_strategy, last_signal_time, signals_today, day_signals, sleep_left, strategy_manager, user_interactions>>
    /\ UNCHANGED <<tg_sleep_left, rep_sleep_left, md_index, md_sleep_left, data_sources, env, timeout_left, signalled, db_state>>

\* TelegramBot.start raised: gather hands the exception to start(), which
\* logs and raises it; main logs it, the finally block awaits stop(), and
\* the three coroutines still running end with the event loop.
StartFailed ==
    /\ main_pc = "serving"
    /\ tg_pc = "failed"
    /\ mon_pc' = "cancelled"
    /\ rep_pc' = "cancelled"
    /\ md_pc' = "cancelled"
    /\ StopEffect
    /\ main_pc' = "exited"
    /\ obs' = Obs("main", <<"log_error", "stop">>, "unchecked", NoCall, FALSE, NoInput)
    /\ UNCHANGED <<clock, active_strategy, last_signal_time, signals_today, day_signals, sleep_left, strategy_manager, user_interactions>>
    /\ UNCHANGED <<tg_pc, tg_sleep_left, rep_sleep_left, md_index, md_sleep_left, data_sources, env, timeout_left, signalled, db_state>>

ElapseMain == Elapse(LoopNames, StartTimeout)

NextMain ==
    \/ CheckEnv \/ orchestrator_start \/ signal_handler
    \/ StartTimedOut \/ StartFailed
    \/ ElapseMain
    \/ telegram_start \/ KeepAliveTick
    \/ StartMonitoring \/ MonitorTick
    \/ start_daily_reports \/ ReportsTick
    \/ start_data_collection \/ CollectionCycle \/ CollectNext

SpecMain == InitMain /\ [][NextMain]_vars

(****************************************************************************)
(*                               Properties                                 *)
(****************************************************************************)
TheCall == obs.call[1]
Called == obs.call # NoCall
Generated == Called /\ ~IsNone(TheCall.ret)
TheSignal == TheCall.ret[1]
IsInteraction == obs.input # NoInput /\ obs.op # "generate_signal"
LastEvent == obs.events[Len(obs.events)]

\* the session windows as the specification states them: [8,17) and [13,22)
SpecSessionOpen(h) == 8 <= h /\ h < 22

Responses ==
    {"answer", "reply_welcome", "reply_help", "reply_status",
     "reply_performance", "reply_signals", "reply_trades", "reply_settings",
     "reply_strategy_unavailable", "reply_not_in_session", "reply_no_signal",
     "reply_signal", "reply_error_generating", "reply_received",
     "edit_settings", "edit_trade"}

Replies == Responses \ {"answer", "edit_settings", "edit_trade"}

CommandOps ==
    {"cmd_start", "cmd_help", "cmd_status", "cmd_performance", "cmd_signals",
     "cmd_trades", "cmd_settings", "cmd_generate_signal"}

\* every response of the operation comes after its attempt to log
LogBeforeResponses ==
    \A i \in 1..Len(obs.events) :
        obs.events[i] \in Responses =>
            \E j \in 1..(i - 1) : obs.events[j] = "log_attempt"

----------------------------------------------------------------------------
\* C1: the session gate answers open exactly for the UTC hours 8..21 and
\* closed for every other hour of the day, whatever else the state is, and
\* an operation that only consults the gate (no stub call, no daily reset)
\* leaves signals_today and last_signal_time as they were.
C1_SessionGate ==
    /\ [](/\ \A h \in 0..(HoursPerDay - 1) :
                IsTradingSessionActive(h) <=> SpecSessionOpen(h)
          /\ obs.gate # "unchecked" =>
                obs.gate = GateAnswer(SpecSessionOpen(Hour(clock))))
    /\ [][obs'.gate # "unchecked" /\ obs'.call = NoCall /\ ~obs'.reset =>
            /\ signals_today' = signals_today
            /\ last_signal_time' = last_signal_time]_vars

\* /generate asks the gate at 22:00, the first closed hour, with signals
\* already counted
C1_Witness ==
    /\ obs.op = "cmd_generate_signal"
    /\ obs.gate = "closed"
    /\ Hour(clock) = 22
    /\ signals_today > 0

\* C2: a call of generate_signal that finds signals_today = 3 returns None
\* and leaves signals_today and last_signal_time unchanged, from the
\* monitoring loop and from /generate alike.
C2_LimitReturnsNone ==
    (Called /\ TheCall.pre_today = 3) =>
        /\ IsNone(TheCall.ret)
        /\ signals_today = 3
        /\ last_signal_time = TheCall.pre_last

\* the monitoring loop calls the stub with the counter at the limit
C2_Witness ==
    /\ obs.op = "monitor"
    /\ Called
    /\ TheCall.pre_today = 3

\* C3 as stated: on every path, no signal is generated less than 3600
\* seconds after the previous one.
C3_Original ==
    (Generated /\ ~IsNone(TheCall.pre_last)) =>
        clock - TheCall.pre_last[1] >= 3600

\* C3 amended: a monitoring tick never generates a signal less than 3600
\* seconds after the previous signal (whichever path produced that one),
\* and it does not even call the stub then; /generate applies no throttle.
C3_MonitorThrottle ==
    (obs.op = "monitor" /\ Called /\ ~IsNone(TheCall.pre_last)) =>
        clock - TheCall.pre_last[1] >= 3600

\* the monitoring loop generates a second signal of the day
C3_Witness ==
    /\ obs.op = "monitor"
    /\ Generated
    /\ ~IsNone(TheCall.pre_last)
    /\ Date(TheCall.pre_last[1]) = Date(clock)

\* C4: generate_signal is reached, signals_today incremented and
\* last_signal_time written only at a UTC hour in [8,22).
C4_OnlyInSession ==
    /\ [](Called => SpecSessionOpen(Hour(clock)))
    /\ [][(signals_today' > signals_today
           \/ last_signal_time' # last_signal_time) =>
              SpecSessionOpen(Hour(clock'))]_vars

\* /generate produces a signal in the last open hour
C4_Witness ==
    /\ obs.op = "cmd_generate_signal"
    /\ Generated
    /\ Hour(clock) = 21

C6_StubSignal ==
    (obs.op = "generate_signal" /\ TheCall.pre_today < 3) =>
        /\ Generated
        /\ TheSignal.confluence_score >= 70 /\ TheSignal.confluence_score <= 95
        /\ TheSignal.type \in {"BUY", "SELL"}
        /\ TheSignal.type = "BUY" =>
              /\ TheSignal.stop_loss = TheSignal.entry_price - 30
              /\ TheSignal.take_profit = TheSignal.entry_price + 75
        /\ TheSignal.type = "SELL" =>
              /\ TheSignal.stop_loss = TheSignal.entry_price + 30
              /\ TheSignal.take_profit = TheSignal.entry_price - 75
        /\ 2 * (TheSignal.take_profit - TheSignal.entry_price)
              = 5 * (TheSignal.entry_price - TheSignal.stop_loss)

\* hour 14, no signal yet, no prior signal time: a SELL signal at an entry
\* price other than the mock price
C6_Witness ==
    /\ obs.op = "generate_signal"
    /\ Hour(clock) = 14
    /\ TheCall.pre_today = 0
    /\ IsNone(TheCall.pre_last)
    /\ Generated
    /\ TheSignal.type = "SELL"
    /\ TheSignal.entry_price # MockPrice

\* C7: /generate handled at an hour outside both windows replies "not in
\* active trading session", does not invoke generate_signal and leaves
\* signals_today and last_signal_time unchanged.
C7_ClosedGenerate ==
    [][(obs'.op = "cmd_generate_signal" /\ ~SpecSessionOpen(Hour(clock'))) =>
          /\ obs'.events[Len(obs'.events)] = "reply_not_in_session"
          /\ obs'.call = NoCall
          /\ signals_today' = signals_today
          /\ last_signal_time' = last_signal_time]_vars

\* /generate at 03:00 with a signal of the day before still recorded
C7_Witness ==
    /\ obs.op = "cmd_generate_signal"
    /\ Hour(clock) = 3
    /\ LastEvent = "reply_not_in_session"
    /\ ~IsNone(last_signal_time)

\* C8 as stated: for every inbound interaction the attempt to persist the
\* audit row comes before any response to the user or the chat service.
C8_Original == IsInteraction => LogBeforeResponses

\* C8 amended: for each of the eight commands and for a plain text message
\* the attempt to persist the audit row comes before any response; an
\* inline-button callback is first acknowledged to the chat service
\* (query.answer), then logged, and its message edit follows the log attempt.
C8_LogFirst ==
    /\ (IsInteraction /\ obs.op # "handle_callback") => LogBeforeResponses
    /\ obs.op = "handle_callback" =>
          /\ obs.events[1] = "answer"
          /\ obs.events[2] = "log_attempt"
          /\ \A i \in 3..Len(obs.events) : obs.events[i] # "answer"

\* a settings button: acknowledged, logged (the attempt fails), edited
C8_Witness ==
    /\ obs.op = "handle_callback"
    /\ obs.events = <<"answer", "log_attempt", "log_error", "edit_settings">>

\* C9: in every command handler a failed audit write is caught and logged
\* and the handler still sends its reply.
C9_ReplyDespiteFailure ==
    (obs.op \in CommandOps /\ \E i \in 1..Len(obs.events) : obs.events[i] = "log_error") =>
        LastEvent \in Replies

\* the interaction type and context payload each handler submits
SubmittedType ==
    CASE obs.op = "cmd_start" -> "start_command"
      [] obs.op = "cmd_help" -> "help_command"
      [] obs.op = "cmd_status" -> "status_command"
      [] obs.op = "cmd_performance" -> "performance_command"
      [] obs.op = "cmd_signals" -> "signals_command"
      [] obs.op = "cmd_trades" -> "trades_command"
      [] obs.op = "cmd_settings" -> "settings_command"
      [] obs.op = "cmd_generate_signal" -> "generate_signal_command"
      [] obs.op = "handle_callback" -> "callback_query"
      [] obs.op = "handle_message" -> "text_message"

SubmittedContext ==
    CASE obs.op = "handle_callback" -> obs.input[1].data
      [] obs.op = "handle_message" -> obs.input[1].text
      [] OTHER -> NoContext

\* C10: after an interaction handled while the database is reachable, a
\* user_interactions row with the submitted user id, interaction type,
\* command text and context payload exists under a primary key of its own.
C10_AuditRoundTrip ==
    (IsInteraction /\ obs.input[1].db_ok) =>
        \E i \in 1..Len(user_interactions) :
            /\ user_interactions[i].user_id = obs.input[1].user_id
            /\ user_interactions[i].interaction_type = SubmittedType
            /\ user_interactions[i].command = obs.input[1].text
            /\ user_interactions[i].context_data = SubmittedContext
            /\ \A j \in 1..Len(user_interactions) :
                  user_interactions[j].id = user_interactions[i].id => j = i

----------------------------------------------------------------------------
\* the text replies the operation of the last step sent, in order
SentReplies == SelectSeq(obs.events, LAMBDA e : e \in Replies)

\* the three replies the specification allows /generate
GenerateReplies == {"reply_not_in_session", "reply_no_signal", "reply_signal"}

\* C11: every invocation of one of the eight commands sends exactly one text
\* reply, and the reply of /generate is the session-closed message, the
\* no-signal explanation or the formatted signal.  (Refuted by the code:
\* /signals raises before it replies.)
C11_OneReply ==
    obs.op \in CommandOps =>
        /\ Len(SentReplies) = 1
        /\ obs.op = "cmd_generate_signal" => SentReplies[1] \in GenerateReplies

----------------------------------------------------------------------------
\* what a handler does without the user seeing it
InternalEvents == {"log_attempt", "log_error", "send_error", "raise"}

\* the responses that carry the content the user asked for
ContentResponses ==
    {"answer", "reply_welcome", "reply_help", "reply_status",
     "reply_performance", "reply_signals", "reply_trades", "reply_settings",
     "reply_signal", "reply_received", "edit_settings", "edit_trade"}

\* everything else the user is sent tells of a failure
FailureReplies ==
    {obs.events[i] : i \in 1..Len(obs.events)} \ (InternalEvents \cup ContentResponses)

----------------------------------------------------------------------------
\* the operation of the last step sent, or tried to send, the formatted
\* signal message
SignalMessageSent ==
    \E i \in 1..Len(obs.events) : obs.events[i] \in {"reply_signal", "send_error"}

\* C18: every signal the stub generates, in the monitoring loop as well as in
\* /generate, is followed by a formatted signal message sent to the chat.
\* (Refuted by the code: the monitoring loop drops the signal it generates.)
C18_SignalSent == Generated => SignalMessageSent

----------------------------------------------------------------------------
\* C20: signals_today goes down only in a monitoring tick that observes a UTC
\* date strictly later than the date of a set last_signal_time, and that tick
\* puts it to zero before any generation of its own; the session gate plays
\* no part in it; no step of the clock, no /generate, no stop and no tick
\* with last_signal_time unset lowers the counter.
C20_LazyReset ==
    [][signals_today' < signals_today =>
          /\ obs'.op = "monitor"
          /\ obs'.reset
          /\ ~IsNone(last_signal_time)
          /\ Date(clock') > Date(last_signal_time[1])
          /\ signals_today' = (IF Generated' THEN 1 ELSE 0)]_vars

\* a tick outside the sessions has just reset a positive counter
C20_Witness ==
    /\ obs.op = "monitor"
    /\ obs.reset
    /\ obs.gate = "closed"
    /\ obs.entry_today > 0
    /\ signals_today = 0

----------------------------------------------------------------------------
\* the loop has been told to stop and has not yet returned
Draining(l) == ~IsNone(stopped_at) /\ ~FlagOf(l) /\ (Sleeping(l) \/ PcOf(l) = "loop")
SinceStop == clock - stopped_at[1]

\* the duration of the sleep the last step started, if it started one
JustSlept ==
    IF obs.op = "keep_alive" THEN {tg_sleep_left}
    ELSE IF obs.op = "monitor" THEN {sleep_left}
    ELSE IF obs.op = "reports" THEN {rep_sleep_left}
    ELSE IF obs.op \in {"collect", "cycle_end", "cycle_break"} THEN {md_sleep_left}
    ELSE {}

\* C14 as stated: every sleep of a polling loop lasts 1, 5, 60 or 300
\* seconds, and a loop whose running flag has been set to False returns
\* within 300 seconds.
C14_Original ==
    /\ JustSlept \subseteq {1, 5, 60, 300}
    /\ \A l \in LoopNames : Draining(l) => SinceStop <= 300

\* C14, amended: every sleep of a polling loop lasts 1, 2, 60, 300 or 3600
\* seconds; once the running flags are False the keep-alive loop of the chat
\* relay returns within 1 second, the monitoring loop within 300 seconds,
\* the collector within 302 seconds (the pause after a symbol, then the
\* whole cycle pause, which it sleeps even after breaking out of the
\* cycle) and the reporting loop within 3600 seconds.
C14_BoundedExit ==
    /\ JustSlept \subseteq {1, 2, 60, 300, 3600}
    /\ Draining("telegram") => SinceStop <= 1
    /\ Draining("monitor") => SinceStop <= 300
    /\ Draining("collector") => SinceStop <= 302
    /\ Draining("reports") => SinceStop <= 3600

\* the reporting loop returns a full hour after it was told to stop
C14_Witness ==
    /\ obs.op = "reports_exit"
    /\ SinceStop = 3600
    /\ md_pc = "done" /\ mon_pc = "done" /\ tg_pc = "done"

----------------------------------------------------------------------------
Collected == obs.op = "collect"
Fetched == obs.input[1]
FetchFailed == Collected /\ IsNone(Fetched.data)
Escaped == Collected /\ \E i \in 1..Len(obs.events) : obs.events[i] = "raise"
FetchLogs == {"log_client_not_available", "log_api_error", "log_error"}
FailureLogged == \E i \in 1..Len(obs.events) : obs.events[i] \in FetchLogs
ClientPresent(symbol) ==
    IF symbol \in Range(crypto_pairs) THEN "bybit" \in data_sources
    ELSE "alpha_vantage" \in data_sources
EmptyResult == FetchFailed /\ Fetched.answer = "empty" /\ ClientPresent(Fetched.symbol)
CollectorStepped == clock' = clock /\ <<md_pc, md_index, md_sleep_left>>' # <<md_pc, md_index, md_sleep_left>>

\* what C15 says of the course of the loop: after a symbol without data the
\* collector pauses two seconds and takes the next symbol of the list; an
\* exception that leaves the cycle is logged, the collector pauses sixty
\* seconds and starts a new cycle with the first symbol; the loop returns
\* only when its running flag is False.
CollectorCarriesOn ==
    /\ [](FetchFailed /\ ~Escaped => md_pc = "symbol_pause" /\ md_sleep_left = 2)
    /\ [](Escaped => /\ \E i \in 1..Len(obs.events) : obs.events[i] = "log_cycle_error"
                     /\ md_pc = "error_pause"
                     /\ md_sleep_left = 60)
    /\ [][md_pc = "symbol_pause" /\ md_running /\ md_index < Len(all_symbols) /\ CollectorStepped
           => Collected' /\ md_index' = md_index + 1]_vars
    /\ [][md_pc = "error_pause" /\ md_running /\ CollectorStepped
           => Collected' /\ md_index' = 1]_vars
    /\ [][md_pc' = "done" /\ md_pc # "done" => ~md_running]_vars

\* C15 as stated: every failure to fetch a symbol (provider error,
\* exception, missing client, empty result) is logged, and the loop carries
\* on as described.
C15_Original == [](FetchFailed => FailureLogged) /\ CollectorCarriesOn

\* C15, amended: a provider error, an exception and a missing client are
\* logged; an empty result is not logged; in all four cases the cycle
\* continues with the next symbol; an exception that escapes the cycle is
\* logged, the loop sleeps 60 seconds and starts a new cycle; none of these
\* ends the loop.
C15_CollectorSurvives ==
    [](FetchFailed => (FailureLogged <=> ~EmptyResult)) /\ CollectorCarriesOn

\* a new cycle has started, sixty seconds after an exception left the first
\* one, and its first symbol failed too
C15_Witness ==
    /\ FetchFailed
    /\ ~Escaped
    /\ md_index = 1
    /\ clock = LoopStart + ErrorPause

----------------------------------------------------------------------------
\* a step advanced the strategy counters
CountersAdvanced ==
    signals_today' > signals_today \/ last_signal_time' # last_signal_time

\* C17 as stated: generate_signal is called, and signals_today and
\* last_signal_time are advanced, only in the handling of a /generate command.
C17_Original ==
    /\ [](Called => obs.op = "cmd_generate_signal")
    /\ [][CountersAdvanced => obs'.op = "cmd_generate_signal"]_vars

\* C17, amended: generate_signal is called, and signals_today and
\* last_signal_time are advanced, only in the handling of a /generate command
\* and in a tick of the monitoring loop; among the handlers of the chat
\* relay /generate is the only one that does so.
C17_StubCallers ==
    /\ [](Called => obs.op \in {"cmd_generate_signal", "monitor"})
    /\ [][CountersAdvanced => obs'.op \in {"cmd_generate_signal", "monitor"} /\ Generated']_vars

\* the monitoring loop has just generated the second signal of the day, the
\* first having come from /generate or from the loop itself
C17_Witness ==
    /\ obs.op = "monitor"
    /\ Generated
    /\ signals_today = 2

----------------------------------------------------------------------------
\* C19: nothing the collector fetches reaches the signal stub.  A step of
\* the collector leaves the whole strategy state as it is, whatever it
\* fetched; and every signal, from the monitoring loop and from /generate,
\* has the mock price 1.0950 as entry price and the levels computed from it,
\* and advances the counters by the call's own state and clock only.  So two
\* runs that differ only in what the collector fetches agree on the strategy
\* state and on every signal.
C19_NoFlow ==
    /\ [][Collected' => UNCHANGED <<running, active_strategy, last_signal_time, signals_today, day_signals, mon_pc, sleep_left, strategy_manager>>]_vars
    /\ [](Generated =>
            /\ TheSignal.entry_price = 10950
            /\ TheSignal.stop_loss = Levels(TheSignal.type, 10950).stop_loss
            /\ TheSignal.take_profit = Levels(TheSignal.type, 10950).take_profit
            /\ signals_today = TheCall.pre_today + 1
            /\ last_signal_time = Some(clock))

\* /generate produced a signal while the collector, three symbols into its
\* cycle, pauses before the fourth
C19_Witness ==
    /\ obs.op = "cmd_generate_signal"
    /\ Generated
    /\ md_pc = "symbol_pause"
    /\ md_index = 3
    /\ clock = LoopStart + 2 * SymbolPause

----------------------------------------------------------------------------
\* nothing of the program has been initialised, constructed or started
NothingBuilt ==
    /\ db_state = "uninitialised"
    /\ data_sources = {}
    /\ ~strategy_manager
    /\ \A l \in LoopNames : PcOf(l) = "idle" /\ ~FlagOf(l)
    /\ ~orch_running

\* C12: when one of the three required variables is missing the process
\* leaves the environment check with exit status 1 and nothing is ever
\* initialised, constructed or started; when all three are set the check
\* passes on to main and the process never exits with status 1.
C12_EnvCheck ==
    /\ [](env # required_env_vars => main_pc \in {"check_env", "exit_1"} /\ NothingBuilt)
    /\ [](env = required_env_vars => main_pc # "exit_1")
    /\ [][main_pc = "check_env" /\ main_pc' # main_pc =>
             main_pc' = (IF env = required_env_vars THEN "main" ELSE "exit_1")]_vars

\* the process has exited with status 1 for want of the provider key alone
C12_Witness ==
    /\ main_pc = "exit_1"
    /\ env = required_env_vars \ {"ALPHA_VANTAGE_API_KEY"}
    /\ NothingBuilt

----------------------------------------------------------------------------
\* C13: once SIGINT or SIGTERM has been delivered to the running process,
\* the running flag of each of the four components is False by the time
\* main returns.  (Refuted by the code: the handler clears the
\* orchestrator's own flag only, and stop() then does nothing.)
C13_FlagsCleared ==
    (signalled /\ main_pc = "exited") => \A l \in LoopNames : ~FlagOf(l)

----------------------------------------------------------------------------
\* C22: in every reachable state 0 <= signals_today <= 3, whatever the
\* interleaving of monitoring ticks and /generate commands; the limit test
\* and the increment belong to one call, so a signal is only generated by a
\* call that found fewer than 3.
C22_CounterInRange ==
    /\ signals_today \in 0..3
    /\ Generated => TheCall.pre_today < 3 /\ signals_today = TheCall.pre_today + 1

\* the monitoring loop has generated the third signal of the day after two
\* /generate commands
C22_Witness ==
    /\ obs.op = "monitor"
    /\ Generated
    /\ TheCall.pre_today = 2
    /\ signals_today = 3
    /\ clock > LoopStart

----------------------------------------------------------------------------
\* C24: whenever last_signal_time is unset signals_today is 0; a set
\* last_signal_time is never unset again and never moves to an earlier time.
C24_LastSignalTime ==
    /\ [](IsNone(last_signal_time) => signals_today = 0)
    /\ [][~IsNone(last_signal_time) =>
             /\ ~IsNone(last_signal_time')
             /\ last_signal_time'[1] >= last_signal_time[1]]_vars

\* last_signal_time has just moved forward from an earlier signal's time
C24_Witness ==
    /\ Generated
    /\ ~IsNone(TheCall.pre_last)
    /\ last_signal_time[1] > TheCall.pre_last[1]

----------------------------------------------------------------------------
\* C23: the clock never going back, at most 3 signals are generated on any
\* one UTC date, the monitoring loop and /generate counted together; and the
\* daily counter is only ever reset on a date on which no signal has been
\* generated yet.
C23_DailyCap ==
    /\ [](day_signals <= 3)
    /\ [](day_signals <= signals_today)
    /\ [][obs'.op = "monitor" /\ obs'.reset => day_signals = 0 /\ clock' = clock]_vars

\* the third signal of day 1 has just been generated, after the counter of
\* day 0 was reset
C23_Witness ==
    /\ Generated
    /\ Date(clock) = 1
    /\ day_signals = 3
    /\ signals_today = 3

----------------------------------------------------------------------------
\* C25: every call of generate_signal that returns a signal adds exactly one
\* to signals_today and sets last_signal_time to the time of the call; the
\* record carries the symbol passed in, the current_price of the market
\* data passed in (1.0000 when the market data has none) and the
\* active_strategy label, which the call leaves as it was; and no step
\* other than a call that returns a signal changes last_signal_time.
C25_PassedSymbol == IF obs.op = "generate_signal" THEN obs.input[1].symbol ELSE "EURUSD"
C25_PassedData == IF obs.op = "generate_signal" THEN obs.input[1].market_data ELSE MockMarketData

C25_GenerationEffect ==
    /\ [](Generated =>
            /\ signals_today = TheCall.pre_today + 1
            /\ last_signal_time = Some(clock)
            /\ TheSignal.symbol = C25_PassedSymbol
            /\ "current_price" \in DOMAIN C25_PassedData
                    => TheSignal.entry_price = C25_PassedData["current_price"]
            /\ "current_price" \notin DOMAIN C25_PassedData
                    => TheSignal.entry_price = DefaultPrice
            /\ TheSignal.strategy = active_strategy)
    /\ [][active_strategy' = active_strategy]_vars
    /\ [][last_signal_time' # last_signal_time => Generated']_vars

\* a direct call for BTCUSDT with a price of its own has returned the second
\* signal of the day, by the clock later than the first
C25_Witness ==
    /\ obs.op = "generate_signal"
    /\ Generated
    /\ TheSignal.symbol = "BTCUSDT"
    /\ TheSignal.entry_price = MockPrice * MockPrice
    /\ TheCall.pre_today = 1
    /\ last_signal_time[1] > TheCall.pre_last[1]

----------------------------------------------------------------------------
\* a monitoring tick is taken with a signal on record, the session gate open
\* and fewer than 3 signals counted
C26_EligibleTick ==
    /\ obs'.op = "monitor"
    /\ ~IsNone(last_signal_time)
    /\ IsTradingSessionActive(Hour(clock))
    /\ signals_today < MaxDailySignals

\* C26 as stated: a monitoring tick that runs 3600 seconds or more after
\* last_signal_time, exactly 3600 included, with the gate open and fewer
\* than 3 signals today, generates a signal.
C26_Original ==
    [][C26_EligibleTick /\ clock - last_signal_time[1] >= ThrottleSeconds
           => Generated']_vars

\* C26 amended: such a tick generates a signal exactly when more than 3600
\* seconds have passed since last_signal_time; at exactly 3600 seconds it
\* does not call generate_signal and leaves the counter and last_signal_time
\* as they were.
C26_StrictThrottle ==
    [][C26_EligibleTick =>
         /\ clock - last_signal_time[1] > ThrottleSeconds => Generated'
         /\ clock - last_signal_time[1] <= ThrottleSeconds =>
                /\ ~Called'
                /\ signals_today' = signals_today
                /\ last_signal_time' = last_signal_time]_vars

\* the tick 3900 seconds after a signal of the monitoring loop has generated
\* the next one (the tick at 3600 seconds did not)
C26_Witness ==
    /\ obs.op = "monitor"
    /\ Generated
    /\ ~IsNone(TheCall.pre_last)
    /\ clock - TheCall.pre_last[1] = ThrottleSeconds + MonitorSleep
    /\ clock = LoopStart + ThrottleSeconds + MonitorSleep

----------------------------------------------------------------------------
\* C30: the /status reply does not depend on the state of the strategy
\* manager: in every state it is formatted from the same data, with 0
\* signals today and "No signals today" as the last signal, so two states
\* that differ in signals_today and last_signal_time get the same reply; and
\* handling /status changes neither signals_today nor last_signal_time.
C30_StatusBlind ==
    /\ [](obs.op = "cmd_status" =>
            /\ obs.status = Some(GetSystemStatus(0, None))
            /\ obs.status[1].signals_today = 0
            /\ obs.status[1].last_signal_time = "No signals today"
            /\ LastEvent = "reply_status")
    /\ [][obs'.op = "cmd_status" => UNCHANGED <<signals_today, last_signal_time>>]_vars

\* /status has been answered while the strategy manager counts two signals,
\* both generated at 13:00
C30_Witness ==
    /\ obs.op = "cmd_status"
    /\ signals_today = 2
    /\ last_signal_time = Some(LoopStart)
    /\ obs.status # NoStatus

----------------------------------------------------------------------------
\* initialize did not get through: the database failed, or a constructor
\* before or at StrategyManager raised
C21_InitIncomplete == db_state = "failed" \/ (db_state = "initialised" /\ ~strategy_manager)

\* C21: when init_database or the constructor of a component raises, the
\* exception leaves start(), no polling loop is started then or later, the
\* orchestrator's flag stays unset, and the process has ended: no step
\* follows.
C21_InitFailure ==
    /\ [][obs'.op = "orchestrator_start" /\ obs'.events # <<>> =>
             /\ "raise" \in Range(obs'.events)
             /\ main_pc' = "exited"
             /\ ~orch_running'
             /\ \A l \in LoopNames : PcOf(l)' = "idle" /\ ~FlagOf(l)']_vars
    /\ [](C21_InitIncomplete =>
             /\ main_pc = "exited"
             /\ ~orch_running
             /\ \A l \in LoopNames : PcOf(l) = "idle" /\ ~FlagOf(l))
    /\ [][main_pc # "exited"]_vars

\* the constructor of StrategyManager has raised after the database and the
\* market data handler were set up: the process has ended with no loop
\* started
C21_Witness ==
    /\ obs.op = "orchestrator_start"
    /\ "raise" \in Range(obs.events)
    /\ db_state = "initialised"
    /\ data_sources = DataSources
    /\ ~strategy_manager
    /\ main_pc = "exited"
    /\ \A l \in LoopNames : PcOf(l) = "idle"

----------------------------------------------------------------------------
\* the bot has started: initialize succeeded and each of the four loops has
\* been entered with its flag set
C28_Started ==
    /\ main_pc = "serving"
    /\ \A l \in LoopNames : PcOf(l) \notin {"idle", "failed"} /\ FlagOf(l)

\* C28: the 60-second timeout of main bounds the startup only: once the bot
\* has started, the timeout branch is not taken and no loop is cancelled; the
\* four loops stay alive for more than 60 seconds, until a shutdown is
\* requested.  (Refuted by the code: wait_for awaits the whole of start(),
\* which returns only when the four loops have returned.)
C28_StartupOnly ==
    [][C28_Started =>
         /\ "timeout" \notin Range(obs'.events)
         /\ \A l \in LoopNames : PcOf(l)' # "cancelled"]_vars

----------------------------------------------------------------------------
\* C27: the monitoring loop never ends because of an error.  An exception
\* raised by a tick (in the reset check, the session check or the signal
\* generation) is caught and logged, the loop then sleeps 60 seconds with
\* its flag as it was and is again at its loop test; and the loop returns
\* only by a loop test that finds running = False.
C27_LoopSurvives ==
    /\ [](obs.op = "monitor_raised" =>
             /\ obs.events = <<"raise", "log_error">>
             /\ mon_pc = "sleep"
             /\ sleep_left = ErrorPause
             /\ running)
    /\ [](mon_pc \in {"idle", "loop", "sleep", "done"})
    /\ [][mon_pc' = "done" /\ mon_pc # "done" => ~running /\ obs'.op = "monitor_exit"]_vars
    /\ [][obs.op = "monitor_raised" /\ clock' # clock => clock' >= clock + ErrorPause /\ AtLoopHead']_vars

\* the tick after one that raised before generate_signal was called has
\* run, 60 seconds after it, and has generated a signal
C27_Witness ==
    /\ obs.op = "monitor"
    /\ Generated
    /\ clock = LoopStart + ErrorPause
    /\ IsNone(TheCall.pre_last)

----------------------------------------------------------------------------
\* the steps in which a loop does its work: a keep-alive tick, a monitoring
\* tick, a reporting tick, the fetch of a symbol
C29_Work(l) ==
    CASE l = "telegram" -> obs'.op = "keep_alive"
      [] l = "monitor" -> obs'.op = "monitor"
      [] l = "reports" -> obs'.op = "reports"
      [] l = "collector" -> obs'.op = "collect"

\* after stop() no stopped loop works again: no monitoring tick and so no
\* signal, no fetch of a symbol
C29_NoFurtherWork ==
    [][\A l \in LoopNames : Draining(l) =>
          /\ ~C29_Work(l)
          /\ l = "monitor" => UNCHANGED <<signals_today, last_signal_time>>
          /\ ~FlagOf(l)']_vars

\* C29 as stated: after stop() on a component whose loop is running, the
\* loop does no further work (the monitoring loop generates no signal, the
\* collector fetches no symbol) and it returns at its next wake-up.
C29_Original ==
    /\ C29_NoFurtherWork
    /\ [][\A l \in LoopNames :
            Draining(l) /\ Ready(l) /\ PcOf(l)' # PcOf(l) => PcOf(l)' = "done"]_vars

\* C29, amended: after stop() on a component whose loop is running, the
\* loop does no further work.  The keep-alive, monitoring and reporting
\* loops return at their next wake-up.  The collector returns at its next
\* wake-up when it is in the pause between two cycles or after an error;
\* stopped in the pause after a symbol, it breaks out of the cycle at its
\* next wake-up, sleeps the 300 seconds between cycles all the same, and
\* returns at the wake-up after that, at most 302 seconds after stop().
C29_StopsWork ==
    /\ C29_NoFurtherWork
    /\ [][\A l \in LoopNames :
            Draining(l) /\ Ready(l) /\ PcOf(l)' # PcOf(l) =>
               IF l = "collector" /\ md_pc = "symbol_pause"
               THEN /\ md_pc' = "cycle_pause"
                    /\ md_sleep_left' = CyclePause
                    /\ md_index' = md_index
               ELSE PcOf(l)' = "done"]_vars
    /\ [](Draining("collector") => SinceStop <= CyclePause + SymbolPause)
    /\ [](Draining("monitor") => SinceStop <= MonitorSleep)

\* the collector has returned: stopped in the pause after its second
\* symbol, it fetched no third one and slept the cycle pause before the loop
\* test
C29_Witness ==
    /\ obs.op = "collector_exit"
    /\ md_index = 2
    /\ SinceStop = CyclePause + SymbolPause
    /\ mon_pc = "done"

====
